---- MODULE Spec2Model ----
(***************************************************************************)
(* RTPProxy (src/unnamed/part_000): the UDP port allocator (createSocket,  *)
(* createSocketPair), the setup/destroy lifecycle, and the RTP/RTCP        *)
(* rewrite-and-forward paths.                                              *)
(*                                                                         *)
(* Ports are scaled: the allocator's range StartPort..65535 is modelled as *)
(* StartPort..StartPort+PortSpan, with the two wrap-around tests           *)
(* (=== 65535, === 65534) at the top of the scaled range.  Buffers are     *)
(* sequences of bytes (TLA+ index = JavaScript offset + 1).                *)
(***************************************************************************)
EXTENDS Integers, Sequences, FiniteSets, TLC

VARIABLES
  occupied,            \* UDP ports held by other processes
  startingPort,        \* this.startingPort, the candidate-port cursor
  sockets,             \* every dgram socket created so far, by creation order
  calls,               \* every createSocket / createSocketPair promise
  incomingRTPSocket,   \* this.incomingRTPSocket  (0 = undefined)
  incomingRTCPSocket,  \* this.incomingRTCPSocket (0 = undefined)
  outgoingSocket,      \* this.outgoingSocket     (0 = undefined)
  setupPc,             \* position of the setup() promise chain
  disabled,            \* this.disabled
  destroyCalls,        \* number of destroy() calls made so far
  destroyThrew,        \* a destroy() call has raised an exception
  handlerThrew,        \* a 'message' listener has raised an exception
  lateErrors,          \* 'error' events delivered to bound sockets so far
  outgoingAddress,     \* this.outgoingAddress ("" = unset)
  outgoingPort,        \* this.outgoingPort (0 = unset)
  outgoingSSRC,        \* this.outgoingSSRC
  incomingSSRC,        \* this.incomingSSRC (Null until learned)
  incomingPayloadType, \* this.incomingPayloadType
  outgoingPayloadType, \* this.outgoingPayloadType (Null until set)
  serverAddress,       \* this.serverAddress ("" = undefined)
  serverRTPPort,       \* this.serverRTPPort (0 = undefined)
  serverRTCPPort,      \* this.serverRTCPPort (0 = undefined)
  sendOutCalls,        \* number of calls of sendOut so far
  sendOutLast,         \* the buffer passed to the last call of sendOut
  wireWrites,          \* number of datagrams written to the outgoing socket
  wireLast,            \* the last datagram written: <<[msg, port, address]>>
  delivered,           \* datagrams that arrived on our sockets so far
  setterCalls,         \* calls of the set... methods so far
  lastIn,              \* the datagram that arrived last: <<[h, msg, out, seen]>>,
                       \* h its listener, out what the listener passed to
                       \* sendOut, seen the sub-packets its transform was given
  sendBackCalls,       \* number of calls of sendBack so far
  codecLast,           \* the last call of processRTCPMessage by another caller:
                       \* <<[msg, transform, processed, seen]>>
  cache,               \* IdentifierCache._cache: key -> id
  usedCache            \* IdentifierCache._usedCache: <<>> = null, else <<key -> id>>

vars == <<occupied, startingPort, sockets, calls, incomingRTPSocket,
          incomingRTCPSocket, outgoingSocket, setupPc, disabled,
          destroyCalls, destroyThrew, handlerThrew, lateErrors,
          outgoingAddress, outgoingPort, outgoingSSRC, incomingSSRC,
          incomingPayloadType, outgoingPayloadType, serverAddress,
          serverRTPPort, serverRTCPPort, sendOutCalls, sendOutLast,
          wireWrites, wireLast, delivered, setterCalls, lastIn,
          sendBackCalls, codecLast, cache, usedCache>>

cacheVars == <<cache, usedCache>>

lifeVars == <<occupied, startingPort, sockets, calls, incomingRTPSocket,
              incomingRTCPSocket, outgoingSocket, setupPc, destroyCalls,
              destroyThrew, lateErrors>>

configVars == <<setterCalls, disabled, outgoingAddress, outgoingPort, outgoingSSRC,
                incomingPayloadType, outgoingPayloadType, serverAddress,
                serverRTPPort, serverRTCPPort>>

relayVars == <<incomingSSRC, sendOutCalls, sendOutLast, wireWrites, wireLast,
               delivered, handlerThrew, lastIn, sendBackCalls, codecLast>>

----------------------------------------------------------------------------
(* Bounds and program constants *)

StartPort == 10000
PortSpan == 3
MaxSockets == 8
MaxExtCalls == 2
MaxDestroy == 2
MaxLateErrors == 1

\* 65535 in createSocket's wrap test, scaled.
MaxPort == StartPort + PortSpan
\* 65534 in createSocketPair's wrap test, scaled.
PairWrapPort == StartPort + PortSpan - 1
\* The number of UDP port numbers (2^16, scaled).
PortLimit == MaxPort + 1

AllocPorts == StartPort..MaxPort

----------------------------------------------------------------------------
(* dgram sockets *)

\* dgram.createSocket(type) followed by socket.bind(port): the bind is
\* asynchronous, its outcome arrives later as 'listening' or 'error'.
NewSocket(port, call, role, peer) ==
  [port |-> port, bport |-> 0, st |-> "binding", closeCalls |-> 0,
   errH |-> TRUE, call |-> call, role |-> role, peer |-> peer, pst |-> 0,
   msgH |-> "none"]

\* socket.close(): releases the handle; on a socket that is already closed
\* it raises ERR_SOCKET_DGRAM_NOT_RUNNING (see ClosedBefore).
CloseSocket(socks, i) ==
  [socks EXCEPT ![i].st = "closed", ![i].closeCalls = @ + 1]

ClosedBefore(socks, i) == socks[i].st = "closed"

\* A port is free when no other process and no open socket of ours holds it.
PortFree(socks, p) ==
  /\ p \notin occupied
  /\ \A k \in 1..Len(socks) : ~(socks[k].st = "listening" /\ socks[k].bport = p)

\* The outcomes of the operating-system bind of a socket asked for `port`:
\* 0 stands for 'error', a positive number for 'listening' on that port.
\* A port number above 65535 is no UDP port: the runtime either reports an
\* error or truncates it to 16 bits (0 = a port the system picks).
BindOutcomes(socks, port) ==
  IF port <= MaxPort
  THEN IF PortFree(socks, port) THEN {port} ELSE {0}
  ELSE LET t == port % PortLimit IN
       {0} \cup (IF t = 0
                 THEN {p \in AllocPorts : PortFree(socks, p)}
                 ELSE {p \in {t} : PortFree(socks, p)})

----------------------------------------------------------------------------
(* The instance while one handler runs: handlers are composed as functions *)
(* on this record and the action commits the result.                       *)

World ==
  [sockets |-> sockets, calls |-> calls, startingPort |-> startingPort,
   rtp |-> incomingRTPSocket, rtcp |-> incomingRTCPSocket,
   out |-> outgoingSocket, pc |-> setupPc]

NewCall(kind, owner) ==
  [kind |-> kind, owner |-> owner, resolved |-> FALSE, result |-> <<>>]

\* createSocket: retry() creates a socket and binds it at the cursor.
RetrySingle(w, c) ==
  [w EXCEPT !.sockets = Append(@, NewSocket(w.startingPort, c, 0, 0))]

\* createSocketPair: retry() creates two sockets and binds them at the
\* cursor and at the cursor plus one.
RetryPair(w, c) ==
  LET n == Len(w.sockets) IN
  [w EXCEPT !.sockets = @ \o <<NewSocket(w.startingPort, c, 1, n + 2),
                               NewSocket(w.startingPort + 1, c, 2, n + 1)>>]

CreateSocket(w, owner) ==
  RetrySingle([w EXCEPT !.calls = Append(@, NewCall("single", owner))],
              Len(w.calls) + 1)

CreateSocketPair(w, owner) ==
  RetryPair([w EXCEPT !.calls = Append(@, NewCall("pair", owner))],
            Len(w.calls) + 1)

\* onBound() with a slip: the disabled flag is not consulted.
OnBoundAlways(w) ==
  [w EXCEPT !.sockets[w.rtp].msgH = "rtp",
            !.sockets[w.rtcp].msgH = "rtcp",
            !.sockets[w.out].msgH = "reply"]

\* onBound(): attaches the three message listeners unless disabled.
OnBound(w) ==
  IF disabled THEN w
  ELSE [w EXCEPT !.sockets[w.rtp].msgH = "rtp",
                 !.sockets[w.rtcp].msgH = "rtcp",
                 !.sockets[w.out].msgH = "reply"]

\* setup(): first .then callback.
SetupThenPair(w, result) ==
  CreateSocket([w EXCEPT !.rtp = result[1], !.rtcp = result[2],
                         !.pc = "single"], "setup")

\* setup(): second .then callback.
SetupThenSingle(w, result) ==
  OnBound([w EXCEPT !.out = result[1], !.pc = "done"])

\* resolve(value) of a promise: the first call settles it and runs the
\* continuation setup() chained on it; later calls do nothing.
Resolve(w, c, result) ==
  IF w.calls[c].resolved THEN w
  ELSE LET w1 == [w EXCEPT !.calls[c].resolved = TRUE,
                           !.calls[c].result = result] IN
       IF w.calls[c].owner # "setup" THEN w1
       ELSE IF w.calls[c].kind = "pair" THEN SetupThenPair(w1, result)
       ELSE SetupThenSingle(w1, result)

\* The cursor step of createSocket with a slip: it wraps where
\* createSocketPair does.
NextSinglePortEarlyWrap(p) == IF p = PairWrapPort THEN StartPort ELSE p + 1

NextSinglePort(p) == IF p = MaxPort THEN StartPort ELSE p + 1

NextPairPort(p) == IF p = PairWrapPort THEN StartPort ELSE p + 1

\* bindErrorHandler with a slip: it gives up after the failure instead of
\* retrying.
BindErrorHandlerGivesUp(w, i) ==
  LET w1 == [w EXCEPT !.startingPort = NextSinglePort(@)]
  IN [w1 EXCEPT !.sockets = CloseSocket(@, i)]

\* createSocket: bindErrorHandler.
BindErrorHandler(w, i) ==
  LET w1 == [w EXCEPT !.startingPort = NextSinglePort(@)]
      w2 == [w1 EXCEPT !.sockets = CloseSocket(@, i)]
  IN RetrySingle(w2, w.sockets[i].call)

\* recheck with a slip: only the socket whose bind failed is closed.
RecheckKeepsBound(w, i) ==
  LET s  == w.sockets[i]
      s1 == IF s.role = 1 THEN i ELSE s.peer
      s2 == IF s.role = 1 THEN s.peer ELSE i
      CloseFailed(socks, k) == IF socks[k].pst = 1 THEN CloseSocket(socks, k) ELSE socks
  IN IF w.sockets[s1].pst = 0 \/ w.sockets[s2].pst = 0 THEN w
     ELSE IF w.sockets[s1].pst = 2 /\ w.sockets[s2].pst = 2
          THEN Resolve(w, s.call, <<s1, s2>>)
     ELSE LET w1 == [w EXCEPT !.startingPort = NextPairPort(@)]
              w2 == [w1 EXCEPT !.sockets = CloseFailed(CloseFailed(@, s1), s2)]
          IN RetryPair(w2, s.call)

\* createSocketPair: recheck, run by socket i's handler.
Recheck(w, i) ==
  LET s  == w.sockets[i]
      s1 == IF s.role = 1 THEN i ELSE s.peer
      s2 == IF s.role = 1 THEN s.peer ELSE i
  IN IF w.sockets[s1].pst = 0 \/ w.sockets[s2].pst = 0 THEN w
     ELSE IF w.sockets[s1].pst = 2 /\ w.sockets[s2].pst = 2
          THEN Resolve(w, s.call, <<s1, s2>>)
     ELSE LET w1 == [w EXCEPT !.startingPort = NextPairPort(@)]
              w2 == [w1 EXCEPT !.sockets = CloseSocket(CloseSocket(@, s1), s2)]
          IN RetryPair(w2, s.call)

\* The 'listening' handlers of both allocators.
OnListening(w, i, p) ==
  LET w1 == [w EXCEPT !.sockets[i].st = "listening", !.sockets[i].bport = p] IN
  IF w.sockets[i].role = 0
  THEN Resolve(w1, w.sockets[i].call, <<i>>)
  ELSE Recheck([w1 EXCEPT !.sockets[i].pst = 2], i)

\* The once('error') handlers of both allocators.
OnError(w, i) ==
  LET w1 == [w EXCEPT !.sockets[i].errH = FALSE,
                      !.sockets[i].st = IF @ = "binding" THEN "unbound" ELSE @] IN
  IF w.sockets[i].role = 0
  THEN BindErrorHandler(w1, i)
  ELSE Recheck([w1 EXCEPT !.sockets[i].pst = 1], i)

\* destroy(): closes the sockets that are set, in order; a close that
\* raises ends the call there.
RECURSIVE DestroyFrom(_, _)
DestroyFrom(socks, ids) ==
  IF ids = <<>> THEN [sockets |-> socks, threw |-> FALSE]
  ELSE IF Head(ids) = 0 THEN DestroyFrom(socks, Tail(ids))
  ELSE IF ClosedBefore(socks, Head(ids))
       THEN [sockets |-> CloseSocket(socks, Head(ids)), threw |-> TRUE]
  ELSE DestroyFrom(CloseSocket(socks, Head(ids)), Tail(ids))

----------------------------------------------------------------------------
(* Buffers *)

Null == -1

\* JavaScript's conversion of null to a number, as the bit operators and
\* Buffer's write methods apply it.
ToNumber(v) == IF v = Null THEN 0 ELSE v

RECURSIVE BitAnd(_, _)
BitAnd(a, b) ==
  IF a = 0 \/ b = 0 THEN 0
  ELSE (IF a % 2 = 1 /\ b % 2 = 1 THEN 1 ELSE 0) + 2 * BitAnd(a \div 2, b \div 2)

RECURSIVE BitOr(_, _)
BitOr(a, b) ==
  IF a = 0 THEN b
  ELSE IF b = 0 THEN a
  ELSE (IF a % 2 = 1 \/ b % 2 = 1 THEN 1 ELSE 0) + 2 * BitOr(a \div 2, b \div 2)

UInt32Bytes(v) ==
  <<v \div 16777216, (v \div 65536) % 256, (v \div 256) % 256, v % 256>>

readUInt8(buf, off) == buf[off + 1]

readUInt16BE(buf, off) == buf[off + 1] * 256 + buf[off + 2]

readUInt32BE(buf, off) ==
  buf[off + 1] * 16777216 + buf[off + 2] * 65536 + buf[off + 3] * 256 + buf[off + 4]

writeUInt8(buf, v, off) == [buf EXCEPT ![off + 1] = v]

writeUInt32BE(buf, v, off) ==
  [k \in 1..Len(buf) |->
     IF k > off /\ k <= off + 4 THEN UInt32Bytes(v)[k - off] ELSE buf[k]]

\* buf.slice(from, to)
Slice(buf, from, to) == SubSeq(buf, from + 1, to)

RECURSIVE Concat(_)
Concat(bufs) == IF bufs = <<>> THEN <<>> ELSE Head(bufs) \o Concat(Tail(bufs))

----------------------------------------------------------------------------
(* The packet handlers.  A handler returns the learned SSRC after the call, *)
(* the buffers it passed to sendOut, and whether it raised an exception.    *)

Handled(ssrc, out, ex) == [ssrc |-> ssrc, out |-> out, threw |-> ex]

\* rtpMessage with a slip: the SSRC is learned from every packet.
rtpMessageRelearns(msg, ssrc) ==
  IF Len(msg) < 12 THEN Handled(ssrc, <<msg>>, FALSE)
  ELSE
    LET mpt   == readUInt8(msg, 1)
        match == BitAnd(mpt, 127) = incomingPayloadType
        mpt2  == BitOr(BitAnd(mpt, 128), ToNumber(outgoingPayloadType))
        msg1  == IF match THEN writeUInt8(msg, mpt2, 1) ELSE msg
    IN Handled(readUInt32BE(msg1, 4), <<writeUInt32BE(msg1, outgoingSSRC, 8)>>, FALSE)

\* rtpMessage with a slip: the outgoing SSRC is written at offset 4.
rtpMessageWritesAtFour(msg, ssrc) ==
  IF Len(msg) < 12 THEN Handled(ssrc, <<msg>>, FALSE)
  ELSE
    LET mpt   == readUInt8(msg, 1)
        match == BitAnd(mpt, 127) = incomingPayloadType
        mpt2  == BitOr(BitAnd(mpt, 128), ToNumber(outgoingPayloadType))
        msg1  == IF match THEN writeUInt8(msg, mpt2, 1) ELSE msg
        ssrc1 == IF ssrc = Null THEN readUInt32BE(msg1, 4) ELSE ssrc
    IN Handled(ssrc1, <<writeUInt32BE(msg1, outgoingSSRC, 4)>>, FALSE)

\* rtpMessage with a slip: the marker bit is not carried over.
rtpMessageDropsMarker(msg, ssrc) ==
  IF Len(msg) < 12 THEN Handled(ssrc, <<msg>>, FALSE)
  ELSE
    LET mpt   == readUInt8(msg, 1)
        match == BitAnd(mpt, 127) = incomingPayloadType
        msg1  == IF match THEN writeUInt8(msg, ToNumber(outgoingPayloadType), 1) ELSE msg
        ssrc1 == IF ssrc = Null THEN readUInt32BE(msg1, 4) ELSE ssrc
    IN Handled(ssrc1, <<writeUInt32BE(msg1, outgoingSSRC, 8)>>, FALSE)

\* rtpMessage with a slip: a packet below 12 bytes is padded to a header
\* and handled like any other.
rtpMessagePadsShort(msg, ssrc) ==
  LET full  == msg \o [k \in 1..(IF Len(msg) < 12 THEN 12 - Len(msg) ELSE 0) |-> 0]
      mpt   == readUInt8(full, 1)
      match == BitAnd(mpt, 127) = incomingPayloadType
      mpt2  == BitOr(BitAnd(mpt, 128), ToNumber(outgoingPayloadType))
      msg1  == IF match THEN writeUInt8(full, mpt2, 1) ELSE full
      ssrc1 == IF ssrc = Null THEN readUInt32BE(msg1, 4) ELSE ssrc
  IN Handled(ssrc1, <<writeUInt32BE(msg1, outgoingSSRC, 8)>>, FALSE)

\* rtpMessage with a slip: the payload type is rewritten without comparing
\* it with the incoming payload type.
rtpMessageRewritesAnyType(msg, ssrc) ==
  IF Len(msg) < 12 THEN Handled(ssrc, <<msg>>, FALSE)
  ELSE
    LET mpt   == readUInt8(msg, 1)
        mpt2  == BitOr(BitAnd(mpt, 128), ToNumber(outgoingPayloadType))
        msg1  == writeUInt8(msg, mpt2, 1)
        ssrc1 == IF ssrc = Null THEN readUInt32BE(msg1, 4) ELSE ssrc
        msg2  == writeUInt32BE(msg1, outgoingSSRC, 8)
    IN IF mpt2 > 255 THEN Handled(ssrc, <<>>, TRUE)
       ELSE Handled(ssrc1, <<msg2>>, FALSE)

rtpMessage(msg, ssrc) ==
  IF Len(msg) < 12 THEN Handled(ssrc, <<msg>>, FALSE)
  ELSE
    LET mpt   == readUInt8(msg, 1)
        pt    == BitAnd(mpt, 127)
        match == pt = incomingPayloadType
        mpt2  == BitOr(BitAnd(mpt, 128), ToNumber(outgoingPayloadType))
        msg1  == IF match THEN writeUInt8(msg, mpt2, 1) ELSE msg
        ssrc1 == IF ssrc = Null THEN readUInt32BE(msg1, 4) ELSE ssrc
        msg2  == writeUInt32BE(msg1, outgoingSSRC, 8)
    IN IF match /\ mpt2 > 255 THEN Handled(ssrc, <<>>, TRUE)
       ELSE Handled(ssrc1, <<msg2>>, FALSE)

\* The forward transform with a slip: the packet type is not looked at.
SenderReportTransformAnyType(pt, packet, ssrc) ==
  IF Len(packet) < 8 THEN [packet |-> packet, ssrc |-> ssrc]
  ELSE [packet |-> writeUInt32BE(packet, outgoingSSRC, 4),
        ssrc |-> IF ssrc = Null THEN readUInt32BE(packet, 4) ELSE ssrc]

\* The forward transform with a slip: the SSRC is read after the outgoing
\* SSRC has been written over it.
SenderReportTransformReadsLate(pt, packet, ssrc) ==
  IF pt # 200 \/ Len(packet) < 8 THEN [packet |-> packet, ssrc |-> ssrc]
  ELSE LET written == writeUInt32BE(packet, outgoingSSRC, 4) IN
       [packet |-> written,
        ssrc |-> IF ssrc = Null THEN readUInt32BE(written, 4) ELSE ssrc]

\* The transform rtcpMessage hands to processRTCPMessage.
SenderReportTransform(pt, packet, ssrc) ==
  IF pt # 200 \/ Len(packet) < 8 THEN [packet |-> packet, ssrc |-> ssrc]
  ELSE [packet |-> writeUInt32BE(packet, outgoingSSRC, 4),
        ssrc |-> IF ssrc = Null THEN readUInt32BE(packet, 4) ELSE ssrc]

\* The transform rtcpReply hands to processRTCPMessage.
ReceiverReportTransform(pt, packet, ssrc) ==
  IF pt # 201 \/ Len(packet) < 12 THEN [packet |-> packet, ssrc |-> ssrc]
  ELSE [packet |-> writeUInt32BE(packet, ToNumber(ssrc), 8), ssrc |-> ssrc]

\* Transforms of other callers of processRTCPMessage: one that returns
\* null for every sub-packet, one that returns an empty Buffer.
NullTransform(pt, packet, ssrc) == [null |-> TRUE, packet |-> <<>>, ssrc |-> ssrc]

EmptyTransform(pt, packet, ssrc) == [packet |-> <<>>, ssrc |-> ssrc]

\* if(packet): null is falsy, a Buffer is an object and so truthy, also
\* when it is empty.
Truthy(t) == "null" \notin DOMAIN t

Transform(path, pt, packet, ssrc) ==
  IF path = "forward" THEN SenderReportTransform(pt, packet, ssrc)
  ELSE IF path = "reply" THEN ReceiverReportTransform(pt, packet, ssrc)
  ELSE IF path = "null" THEN NullTransform(pt, packet, ssrc)
  ELSE EmptyTransform(pt, packet, ssrc)

\* The loop with a slip: a sub-packet that ends exactly at the end of the
\* buffer is taken for one that overruns it.
RECURSIVE WalkRTCPStrict(_, _, _, _, _)
WalkRTCPStrict(msg, path, offset, kept, ssrc) ==
  IF offset + 4 > Len(msg) THEN [kept |-> kept, ssrc |-> ssrc, seen |-> <<>>]
  ELSE
    LET pt  == readUInt8(msg, offset + 1)
        len == readUInt16BE(msg, offset + 2) * 4
    IN IF offset + 4 + len >= Len(msg) THEN [kept |-> kept, ssrc |-> ssrc, seen |-> <<>>]
       ELSE LET packet == Slice(msg, offset, offset + 4 + len)
                t == Transform(path, pt, packet, ssrc)
                r == WalkRTCPStrict(msg, path, offset + 4 + len,
                                    IF Truthy(t) THEN Append(kept, t.packet) ELSE kept,
                                    t.ssrc)
            IN [r EXCEPT !.seen = <<[pt |-> pt, packet |-> packet, offset |-> offset]>> \o @]

\* The loop with a slip: the offset advances by the body length of the
\* sub-packet without its header, and by one byte where that is zero.
RECURSIVE WalkRTCPStepsByBody(_, _, _, _, _)
WalkRTCPStepsByBody(msg, path, offset, kept, ssrc) ==
  IF offset + 4 > Len(msg) THEN [kept |-> kept, ssrc |-> ssrc, seen |-> <<>>]
  ELSE
    LET pt  == readUInt8(msg, offset + 1)
        len == readUInt16BE(msg, offset + 2) * 4
    IN IF offset + 4 + len > Len(msg) THEN [kept |-> kept, ssrc |-> ssrc, seen |-> <<>>]
       ELSE LET packet == Slice(msg, offset, offset + 4 + len)
                t == Transform(path, pt, packet, ssrc)
                r == WalkRTCPStepsByBody(msg, path,
                                         offset + (IF len = 0 THEN 1 ELSE len),
                                         IF Truthy(t) THEN Append(kept, t.packet)
                                         ELSE kept,
                                         t.ssrc)
            IN [r EXCEPT !.seen = <<[pt |-> pt, packet |-> packet, offset |-> offset]>> \o @]

\* processRTCPMessage's loop from `offset` on; `kept` are the sub-packets
\* pushed so far, `seen` the arguments of the calls of the transform.
RECURSIVE WalkRTCP(_, _, _, _, _)
WalkRTCP(msg, path, offset, kept, ssrc) ==
  IF offset + 4 > Len(msg) THEN [kept |-> kept, ssrc |-> ssrc, seen |-> <<>>]
  ELSE
    LET pt  == readUInt8(msg, offset + 1)
        len == readUInt16BE(msg, offset + 2) * 4
    IN IF offset + 4 + len > Len(msg) THEN [kept |-> kept, ssrc |-> ssrc, seen |-> <<>>]
       ELSE LET packet == Slice(msg, offset, offset + 4 + len)
                t == Transform(path, pt, packet, ssrc)
                r == WalkRTCP(msg, path, offset + 4 + len,
                              IF Truthy(t) THEN Append(kept, t.packet)
                              ELSE kept,
                              t.ssrc)
            IN [r EXCEPT !.seen = <<[pt |-> pt, packet |-> packet, offset |-> offset]>> \o @]

\* processRTCPMessage: the concatenated sub-packets, or no buffer (null).
processRTCPMessage(msg, path, ssrc) ==
  LET r == WalkRTCP(msg, path, 0, <<>>, ssrc) IN
  [processed |-> IF Len(r.kept) > 0 THEN <<Concat(r.kept)>> ELSE <<>>,
   ssrc |-> r.ssrc, seen |-> r.seen]

rtcpMessage(msg, ssrc) ==
  LET r == processRTCPMessage(msg, "forward", ssrc) IN
  Handled(r.ssrc, r.processed, FALSE)

rtcpReply(msg, ssrc) ==
  LET r == processRTCPMessage(msg, "reply", ssrc) IN
  Handled(r.ssrc, r.processed, FALSE)

\* The 'message' listener attached to a socket, if any.
OnMessage(h, msg, ssrc) ==
  IF h = "rtp" THEN rtpMessage(msg, ssrc)
  ELSE IF h = "rtcp" THEN rtcpMessage(msg, ssrc)
  ELSE IF h = "reply" THEN rtcpReply(msg, ssrc)
  ELSE Handled(ssrc, <<>>, FALSE)

\* The calls of the transform made while listener h handles msg.
TransformCalls(h, msg, ssrc) ==
  IF h = "rtcp" THEN processRTCPMessage(msg, "forward", ssrc).seen
  ELSE IF h = "reply" THEN processRTCPMessage(msg, "reply", ssrc).seen
  ELSE <<>>

\* sendOut(msg): what reaches the outgoing socket's send.
SendOutWrites(msg) ==
  IF outgoingAddress = "" \/ outgoingPort = 0 THEN <<>>
  ELSE <<[msg |-> msg, port |-> outgoingPort, address |-> outgoingAddress,
          socket |-> outgoingSocket]>>

\* sendBack with a slip: only the address is tested.
SendBackWritesAddressOnly(msg) ==
  IF serverAddress = "" THEN <<>>
  ELSE <<[msg |-> msg, port |-> serverRTCPPort, address |-> serverAddress,
          socket |-> outgoingSocket]>>

\* sendBack(msg): what reaches the outgoing socket's send.
SendBackWrites(msg) ==
  IF serverAddress = "" \/ serverRTCPPort = 0 THEN <<>>
  ELSE <<[msg |-> msg, port |-> serverRTCPPort, address |-> serverAddress,
          socket |-> outgoingSocket]>>

\* The relay with a slip: the reply listener answers through sendBack.
HandlerWritesReplyBack(h, msg) ==
  IF h = "reply" THEN SendBackWrites(msg) ELSE SendOutWrites(msg)

\* What listener h sends for the packet msg it emits: rtpMessage,
\* rtcpMessage and rtcpReply all end in this.sendOut(msg).
HandlerWrites(h, msg) == SendOutWrites(msg)

\* socket.send on a closed socket raises ERR_SOCKET_DGRAM_NOT_RUNNING, and
\* on a field that is still undefined a TypeError.
SendRaises(writes) ==
  writes # <<>> /\ (outgoingSocket = 0 \/ sockets[outgoingSocket].st = "closed")

----------------------------------------------------------------------------
(* Datagrams *)

MaxMsgs == 2
MaxSetterCalls == 2
MaxSendCalls == 2

RtpFull(b1, s4, s8) ==
  <<128, b1, 0, 1>> \o UInt32Bytes(s4) \o UInt32Bytes(s8) \o <<171, 205, 239, 1>>

MkRtp(len, b1, s4, s8) == SubSeq(RtpFull(b1, s4, s8), 1, len)

\* One RTCP sub-packet: header (flags, type, length in words) and body.
MkSub(pt, words, s4, s8) ==
  <<128, pt, words \div 256, words % 256>>
    \o SubSeq(UInt32Bytes(s4) \o UInt32Bytes(s8) \o <<85, 85, 85, 85>>, 1, 4 * words)

\* SSRC values (all below 2^31, the range of TLC's integers).
SsrcOut == 715827882
SsrcA == 286331153
SsrcB == 572662306
SsrcC == 858993459

\* RTP: too short (0 and 11 bytes), a bare header and a header with
\* payload; byte 1 carries type 0, type 96, and type 96 with the marker.
RtpDatagrams ==
  {MkRtp(0, 96, SsrcA, SsrcC), MkRtp(11, 224, SsrcB, SsrcC),
   MkRtp(12, 0, SsrcA, SsrcC), MkRtp(12, 96, SsrcA, SsrcC),
   MkRtp(12, 224, SsrcB, SsrcC), MkRtp(16, 224, SsrcB, SsrcA)}

\* RTCP: Sender Reports (200) of 4, 8 and 12 bytes, a Receiver Report (201)
\* of 12 bytes, and a compound of a Receiver Report and a Sender Report.
RtcpDatagrams ==
  {MkSub(200, 0, SsrcA, SsrcC), MkSub(200, 1, SsrcA, SsrcC),
   MkSub(200, 2, SsrcB, SsrcC), MkSub(201, 2, SsrcB, SsrcC),
   MkSub(201, 2, SsrcA, SsrcC) \o MkSub(200, 2, SsrcC, SsrcA)}

Datagrams == RtpDatagrams \cup RtcpDatagrams

IncomingTypes == {96}
OutgoingTypes == {99, 200}
\* The peer given at construction: set, or with the address or the port
\* left empty.
PeerTargets == {<<"peer", 5000>>, <<"", 5000>>, <<"peer", 0>>}
ServerAddresses == {"server"}
ServerPorts == {6000}

SmallDatagrams == {MkRtp(12, 96, SsrcA, SsrcC), MkSub(200, 1, SsrcB, SsrcC)}

\* Compound RTCP, well-formed and not: nothing, less than a header, a
\* header alone, under-length and full Sender and Receiver Reports, another
\* type, compounds of two, a last sub-packet that overruns the buffer,
\* trailing bytes, a first sub-packet that overruns, and eight zero bytes
\* (two sub-packets of the least length).
CompoundDatagrams ==
  {<<>>, <<128, 200, 0>>, MkSub(200, 0, SsrcA, SsrcC),
   <<0, 0, 0, 0, 0, 0, 0, 0>>,
   MkSub(200, 1, SsrcA, SsrcC), MkSub(200, 2, SsrcB, SsrcC),
   MkSub(201, 1, SsrcA, SsrcC), MkSub(201, 2, SsrcB, SsrcC),
   MkSub(203, 1, SsrcA, SsrcC),
   MkSub(201, 3, SsrcA, SsrcC) \o MkSub(200, 2, SsrcC, SsrcA),
   MkSub(200, 1, SsrcB, SsrcC) \o <<128, 201, 0, 2>>,
   MkSub(201, 2, SsrcB, SsrcC) \o <<128, 200, 0>>,
   <<128, 200, 0, 5, 1, 2, 3, 4>>}

\* The transforms another caller hands to processRTCPMessage.
CallerTransforms == {"null", "empty"}

----------------------------------------------------------------------------
(* IdentifierCache *)

MaxNextId == 5

\* What reading a missing key yields; like every id it is tested with ||.
Undefined == 0

\* The root accessory is 1 and iid 1 is reserved: ids start at 2.
FirstId == 2

\* UUID strings: none contains "|" and none is one of the counters' names.
AccessoryUUIDs == {"A", "B"}
ServiceUUIDs == {"S"}
\* The optional arguments serviceSubtype and characteristicUUID, "" where
\* one is left out: none, a subtype, a characteristic.
OptionalArgs == {<<"", "">>, <<"X", "">>, <<"", "X">>}

\* A key is a string of parts joined by "|", kept here as its parts.
NextAIDKey == <<"", "nextAID">>

NextIIDKey(accessoryUUID) == <<accessoryUUID, "nextIID">>

IIDKey(accessoryUUID, serviceUUID, serviceSubtype, characteristicUUID) ==
  <<accessoryUUID, serviceUUID>>
    \o (IF serviceSubtype # "" THEN <<serviceSubtype>> ELSE <<>>)
    \o (IF characteristicUUID # "" THEN <<characteristicUUID>> ELSE <<>>)

\* The object obj with obj[key] = value.
Put(obj, key, value) ==
  [k \in DOMAIN obj \cup {key} |-> IF k = key THEN value ELSE obj[k]]

\* The cache while one method runs.
IdWorld == [cache |-> cache, used |-> usedCache]

startTrackingUsage(c) == [c EXCEPT !.used = << <<>> >>]

\* this._usedCache || this._cache: an object is truthy, also an empty one.
stopTrackingUsageAndExpireUnused(c) ==
  [cache |-> IF c.used # <<>> THEN c.used[1] ELSE c.cache, used |-> <<>>]

getCache(c, key) ==
  LET value == IF key \in DOMAIN c.cache THEN c.cache[key] ELSE Undefined IN
  [c |-> IF c.used # <<>> /\ key \in DOMAIN c.cache
         THEN [c EXCEPT !.used = <<Put(c.used[1], key, value)>>]
         ELSE c,
   value |-> value]

setCache(c, key, value) ==
  [c |-> [cache |-> Put(c.cache, key, value),
          used |-> IF c.used # <<>> THEN <<Put(c.used[1], key, value)>> ELSE c.used],
   value |-> value]

\* getNextAID and getNextIID: read the counter stored under key, or start
\* at 2, and store the increment.
getNextID(c, key) ==
  LET g == getCache(c, key)
      next == IF g.value # Undefined THEN g.value ELSE FirstId
  IN [c |-> setCache(g.c, key, next + 1).c, value |-> next]

getNextAID(c) == getNextID(c, NextAIDKey)

getNextIID(c, accessoryUUID) == getNextID(c, NextIIDKey(accessoryUUID))

\* getAID with a slip: the counter is not read first, so that usage
\* tracking does not see it.
getAIDCounterUntracked(c, accessoryUUID) ==
  LET g == getCache(c, <<accessoryUUID>>) IN
  IF g.value # Undefined THEN g
  ELSE LET n == getNextAID(g.c) IN setCache(n.c, <<accessoryUUID>>, n.value)

getAID(c, accessoryUUID) ==
  LET key == <<accessoryUUID>>
      c1  == getCache(c, NextAIDKey).c
      g   == getCache(c1, key)
  IN IF g.value # Undefined THEN g
     ELSE LET n == getNextAID(g.c) IN setCache(n.c, key, n.value)

getIID(c, accessoryUUID, serviceUUID, serviceSubtype, characteristicUUID) ==
  LET key == IIDKey(accessoryUUID, serviceUUID, serviceSubtype, characteristicUUID)
      c1  == getCache(c, NextIIDKey(accessoryUUID)).c
      g   == getCache(c1, key)
  IN IF g.value # Undefined THEN g
     ELSE LET n == getNextIID(g.c, accessoryUUID) IN setCache(n.c, key, n.value)

----------------------------------------------------------------------------
(* Actions *)

\* The sockets setup() creates at most when a free pair and a further free
\* port exist: two per pair attempt over 10000..65534, one per single
\* attempt over 10000..65535 (scaled).
SweepSockets == 2 * PortSpan + (PortSpan + 1)

\* The retries are unbounded: a run is followed up to MaxSockets sockets,
\* and setup() running alone, with no socket error after a bind and no
\* teardown, up to a full sweep of the port range.
SocketCap(w) ==
  IF /\ SweepSockets > MaxSockets
     /\ lateErrors = 0
     /\ destroyCalls = 0
     /\ \A c \in 1..Len(w.calls) : w.calls[c].owner = "setup"
  THEN SweepSockets
  ELSE MaxSockets

Commit(w) ==
  /\ Len(w.sockets) <= SocketCap(w)
  /\ sockets' = w.sockets
  /\ calls' = w.calls
  /\ startingPort' = w.startingPort
  /\ incomingRTPSocket' = w.rtp
  /\ incomingRTCPSocket' = w.rtcp
  /\ outgoingSocket' = w.out
  /\ setupPc' = w.pc

ExtCalls == Cardinality({c \in 1..Len(calls) : calls[c].owner = "ext"})

\* Every field the constructor sets, except the allocator's cursor.
InitExceptCursor ==
  /\ occupied \in SUBSET AllocPorts
  /\ sockets = <<>>
  /\ calls = <<>>
  /\ incomingRTPSocket = 0
  /\ incomingRTCPSocket = 0
  /\ outgoingSocket = 0
  /\ setupPc = "idle"
  /\ disabled \in BOOLEAN
  /\ destroyCalls = 0
  /\ destroyThrew = FALSE
  /\ handlerThrew = FALSE
  /\ lateErrors = 0
  /\ outgoingAddress = "peer"
  /\ outgoingPort = 5000
  /\ outgoingSSRC = SsrcOut
  /\ incomingSSRC = Null
  /\ incomingPayloadType = 0
  /\ outgoingPayloadType = Null
  /\ serverAddress = ""
  /\ serverRTPPort = 0
  /\ serverRTCPPort = 0
  /\ sendOutCalls = 0
  /\ sendOutLast = <<>>
  /\ wireWrites = 0
  /\ wireLast = <<>>
  /\ delivered = 0
  /\ lastIn = <<>>
  /\ sendBackCalls = 0
  /\ codecLast = <<>>
  /\ setterCalls = 0
  /\ cache = <<>>
  /\ usedCache = <<>>

\* The instance as the constructor leaves it.
Init ==
  /\ InitExceptCursor
  /\ startingPort = StartPort

\* setup() with a slip: the outgoing socket is requested together with the
\* pair instead of after it.
SetupAllAtOnce ==
  /\ setupPc = "idle"
  /\ destroyCalls = 0
  /\ Commit(CreateSocket(CreateSocketPair([World EXCEPT !.pc = "pair"], "setup"),
                         "setup"))
  /\ UNCHANGED <<cacheVars, occupied, destroyCalls, destroyThrew, lateErrors, configVars, relayVars>>

\* setup() is called, once, on an instance that has not been destroyed.
Setup ==
  /\ setupPc = "idle"
  /\ destroyCalls = 0
  /\ Commit(CreateSocketPair([World EXCEPT !.pc = "pair"], "setup"))
  /\ UNCHANGED <<cacheVars, occupied, destroyCalls, destroyThrew, lateErrors, configVars, relayVars>>

\* Another caller uses the allocator of the same instance.
CallCreateSocket ==
  /\ ExtCalls < MaxExtCalls
  /\ Commit(CreateSocket(World, "ext"))
  /\ UNCHANGED <<cacheVars, occupied, destroyCalls, destroyThrew, lateErrors, configVars, relayVars>>

CallCreateSocketPair ==
  /\ ExtCalls < MaxExtCalls
  /\ Commit(CreateSocketPair(World, "ext"))
  /\ UNCHANGED <<cacheVars, occupied, destroyCalls, destroyThrew, lateErrors, configVars, relayVars>>

\* The outcome of a pending bind arrives.
BindEvent ==
  \E i \in 1..Len(sockets) :
    /\ sockets[i].st = "binding"
    /\ \E o \in BindOutcomes(sockets, sockets[i].port) :
         Commit(IF o = 0 THEN OnError(World, i) ELSE OnListening(World, i, o))
    /\ UNCHANGED <<cacheVars, occupied, destroyCalls, destroyThrew, lateErrors, configVars, relayVars>>

\* A bound socket emits 'error' while the allocator's once('error')
\* handler is still registered on it.
LateError ==
  \E i \in 1..Len(sockets) :
    /\ lateErrors < MaxLateErrors
    /\ sockets[i].st = "listening"
    /\ sockets[i].errH
    /\ Commit(OnError(World, i))
    /\ lateErrors' = lateErrors + 1
    /\ UNCHANGED <<cacheVars, occupied, destroyCalls, destroyThrew, configVars, relayVars>>

\* destroy() is called.
Destroy ==
  /\ destroyCalls < MaxDestroy
  /\ LET r == DestroyFrom(sockets, <<incomingRTPSocket, incomingRTCPSocket,
                                     outgoingSocket>>) IN
       /\ sockets' = r.sockets
       /\ destroyThrew' = (destroyThrew \/ r.threw)
  /\ destroyCalls' = destroyCalls + 1
  /\ UNCHANGED <<cacheVars, occupied, startingPort, calls, incomingRTPSocket,
                 incomingRTCPSocket, outgoingSocket, setupPc, lateErrors,
                 configVars, relayVars>>

\* A datagram from D arrives on socket i and its 'message' listener, if one
\* is attached, runs.
Deliver(i, msg) ==
  /\ delivered < MaxMsgs
  /\ sockets[i].st = "listening"
  /\ LET r == OnMessage(sockets[i].msgH, msg, incomingSSRC)
         w == IF r.out = <<>> THEN <<>> ELSE HandlerWrites(sockets[i].msgH, r.out[1])
     IN /\ incomingSSRC' = r.ssrc
        /\ sendOutCalls' = sendOutCalls + Len(r.out)
        /\ sendOutLast' = IF r.out = <<>> THEN sendOutLast ELSE r.out[1]
        /\ wireWrites' = IF SendRaises(w) THEN wireWrites ELSE wireWrites + Len(w)
        /\ wireLast' = IF SendRaises(w) \/ w = <<>> THEN wireLast ELSE w
        /\ handlerThrew' = (handlerThrew \/ r.threw \/ SendRaises(w))
        /\ lastIn' = <<[h |-> sockets[i].msgH, msg |-> msg, out |-> r.out,
                        seen |-> TransformCalls(sockets[i].msgH, msg, incomingSSRC)]>>
  /\ delivered' = delivered + 1
  /\ UNCHANGED <<cacheVars, lifeVars, configVars, sendBackCalls, codecLast>>

Arrive ==
  \E i \in 1..Len(sockets) : \E msg \in SmallDatagrams : Deliver(i, msg)

Arrival ==
  \E i \in 1..Len(sockets) : \E msg \in Datagrams : Deliver(i, msg)

ArriveCompound ==
  \E i \in 1..Len(sockets) :
    \E msg \in CompoundDatagrams \cup {MkRtp(12, 96, SsrcA, SsrcC)} : Deliver(i, msg)

\* Another caller sends through the instance: sendOut(msg).
CallSendOut ==
  \E msg \in SmallDatagrams :
    LET w == SendOutWrites(msg) IN
    /\ sendOutCalls + sendBackCalls < MaxSendCalls
    /\ sendOutCalls' = sendOutCalls + 1
    /\ sendOutLast' = msg
    /\ wireWrites' = IF SendRaises(w) THEN wireWrites ELSE wireWrites + Len(w)
    /\ wireLast' = IF SendRaises(w) \/ w = <<>> THEN wireLast ELSE w
    /\ handlerThrew' = (handlerThrew \/ SendRaises(w))
    /\ UNCHANGED <<cacheVars, lifeVars, configVars, incomingSSRC, delivered, lastIn,
                   sendBackCalls, codecLast>>

\* sendBack(msg).
CallSendBack ==
  \E msg \in SmallDatagrams :
    LET w == SendBackWrites(msg) IN
    /\ sendOutCalls + sendBackCalls < MaxSendCalls
    /\ sendBackCalls' = sendBackCalls + 1
    /\ wireWrites' = IF SendRaises(w) THEN wireWrites ELSE wireWrites + Len(w)
    /\ wireLast' = IF SendRaises(w) \/ w = <<>> THEN wireLast ELSE w
    /\ handlerThrew' = (handlerThrew \/ SendRaises(w))
    /\ UNCHANGED <<cacheVars, lifeVars, configVars, incomingSSRC, delivered, lastIn,
                   sendOutCalls, sendOutLast, codecLast>>

\* processRTCPMessage(msg, transform) with a transform of the caller's.
CallProcessRTCP ==
  \E msg \in CompoundDatagrams : \E t \in CallerTransforms :
    LET r == processRTCPMessage(msg, t, incomingSSRC) IN
    /\ codecLast' = <<[msg |-> msg, transform |-> t, processed |-> r.processed,
                       seen |-> r.seen]>>
    /\ UNCHANGED <<cacheVars, lifeVars, configVars, incomingSSRC, sendOutCalls, sendOutLast,
                   wireWrites, wireLast, delivered, handlerThrew, lastIn,
                   sendBackCalls>>

SetServerAddress ==
  /\ setterCalls < MaxSetterCalls
  /\ setterCalls' = setterCalls + 1
  /\ serverAddress' \in ServerAddresses
  /\ UNCHANGED <<cacheVars, lifeVars, relayVars, disabled, outgoingAddress, outgoingPort,
                 outgoingSSRC, incomingPayloadType, outgoingPayloadType,
                 serverRTPPort, serverRTCPPort>>

SetServerRTPPort ==
  /\ setterCalls < MaxSetterCalls
  /\ setterCalls' = setterCalls + 1
  /\ serverRTPPort' \in ServerPorts
  /\ UNCHANGED <<cacheVars, lifeVars, relayVars, disabled, outgoingAddress, outgoingPort,
                 outgoingSSRC, incomingPayloadType, outgoingPayloadType,
                 serverAddress, serverRTCPPort>>

SetServerRTCPPort ==
  /\ setterCalls < MaxSetterCalls
  /\ setterCalls' = setterCalls + 1
  /\ serverRTCPPort' \in ServerPorts
  /\ UNCHANGED <<cacheVars, lifeVars, relayVars, disabled, outgoingAddress, outgoingPort,
                 outgoingSSRC, incomingPayloadType, outgoingPayloadType,
                 serverAddress, serverRTPPort>>

SetIncomingPayloadType ==
  /\ setterCalls < MaxSetterCalls
  /\ setterCalls' = setterCalls + 1
  /\ incomingPayloadType' \in IncomingTypes
  /\ UNCHANGED <<cacheVars, lifeVars, relayVars, disabled, outgoingAddress, outgoingPort,
                 outgoingSSRC, outgoingPayloadType, serverAddress,
                 serverRTPPort, serverRTCPPort>>

SetOutgoingPayloadType ==
  /\ setterCalls < MaxSetterCalls
  /\ setterCalls' = setterCalls + 1
  /\ outgoingPayloadType' \in OutgoingTypes
  /\ UNCHANGED <<cacheVars, lifeVars, relayVars, disabled, outgoingAddress, outgoingPort,
                 outgoingSSRC, incomingPayloadType, serverAddress,
                 serverRTPPort, serverRTCPPort>>

\* The life of one instance: setup, teardown and traffic.
Next ==
  \/ Setup
  \/ BindEvent
  \/ LateError
  \/ Destroy
  \/ Arrive

Spec == Init /\ [][Next]_vars

\* The allocator under calls from any caller of the instance, every bind
\* ending in 'listening' or 'error' (errors after a bind are part of Spec).
NextAlloc ==
  \/ CallCreateSocket
  \/ CallCreateSocketPair
  \/ BindEvent

SpecAlloc == Init /\ [][NextAlloc]_vars

\* The allocator shared by setup and other callers, with teardown.
NextShared ==
  \/ Setup
  \/ CallCreateSocket
  \/ CallCreateSocketPair
  \/ BindEvent
  \/ Destroy

SpecShared == Init /\ [][NextShared]_vars

\* setup() alone, every pending bind eventually ending in 'listening' or
\* 'error'.
NextLive ==
  \/ Setup
  \/ BindEvent

SpecLive == Init /\ [][NextLive]_vars /\ WF_vars(BindEvent)

\* An enabled instance on a host with no port taken, as setup() leaves it:
\* the pair bound at the base port, the outgoing socket two ports above.
SetUpWorld ==
  LET w0 == [sockets |-> <<>>, calls |-> <<>>, startingPort |-> StartPort,
             rtp |-> 0, rtcp |-> 0, out |-> 0, pc |-> "pair"]
      w1 == CreateSocketPair(w0, "setup")
      w2 == OnListening(w1, 1, StartPort)
      w3 == OnListening(w2, 2, StartPort + 1)
      w4 == OnError(w3, 3)
      w5 == OnError(w4, 4)
  IN OnListening(w5, 5, StartPort + 2)

InitRelay ==
  /\ occupied = {}
  /\ disabled = FALSE
  /\ startingPort = SetUpWorld.startingPort
  /\ sockets = SetUpWorld.sockets
  /\ calls = SetUpWorld.calls
  /\ incomingRTPSocket = SetUpWorld.rtp
  /\ incomingRTCPSocket = SetUpWorld.rtcp
  /\ outgoingSocket = SetUpWorld.out
  /\ setupPc = SetUpWorld.pc
  /\ destroyCalls = 0
  /\ destroyThrew = FALSE
  /\ handlerThrew = FALSE
  /\ lateErrors = 0
  /\ \E t \in PeerTargets : outgoingAddress = t[1] /\ outgoingPort = t[2]
  /\ outgoingSSRC = SsrcOut
  /\ incomingSSRC = Null
  /\ incomingPayloadType = 0
  /\ outgoingPayloadType = Null
  /\ serverAddress = ""
  /\ serverRTPPort = 0
  /\ serverRTCPPort = 0
  /\ sendOutCalls = 0
  /\ sendOutLast = <<>>
  /\ wireWrites = 0
  /\ wireLast = <<>>
  /\ delivered = 0
  /\ lastIn = <<>>
  /\ sendBackCalls = 0
  /\ codecLast = <<>>
  /\ setterCalls = 0
  /\ cache = <<>>
  /\ usedCache = <<>>

\* The packet paths of an instance that is set up.
NextRelay ==
  \/ Arrival
  \/ SetServerAddress
  \/ SetServerRTPPort
  \/ SetServerRTCPPort
  \/ SetIncomingPayloadType
  \/ SetOutgoingPayloadType

SpecRelay == InitRelay /\ [][NextRelay]_vars

\* The RTCP paths of an instance that is set up, under compound datagrams.
NextCodec == ArriveCompound

SpecCodec == InitRelay /\ [][NextCodec]_vars

\* The public send primitives and the codec, called by another caller of
\* an instance that is set up.
NextApi ==
  \/ CallSendOut
  \/ CallSendBack
  \/ CallProcessRTCP
  \/ SetServerAddress
  \/ SetServerRTCPPort

\* createSocket alone, on an instance whose earlier allocations have left
\* the cursor anywhere in its range and whose earlier sockets are gone.
InitSingle ==
  /\ InitExceptCursor
  /\ startingPort \in AllocPorts

NextSingle ==
  \/ CallCreateSocket
  \/ BindEvent

SpecSingle == InitSingle /\ [][NextSingle]_vars

\* The instance as constructed (with its peer set), or set up.
InitApi ==
  \/ Init /\ occupied = {} /\ ~disabled
  \/ InitRelay

SpecApi == InitApi /\ [][NextApi]_vars

\* The counter stored under key, or the id it starts at.
NextIdAt(key) == IF key \in DOMAIN cache THEN cache[key] ELSE FirstId

CommitIds(c) ==
  /\ cache' = c.cache
  /\ usedCache' = c.used
  /\ UNCHANGED <<lifeVars, configVars, relayVars>>

CallGetAID ==
  \E a \in AccessoryUUIDs :
    /\ NextIdAt(NextAIDKey) < MaxNextId
    /\ CommitIds(getAID(IdWorld, a).c)

CallGetIID ==
  \E a \in AccessoryUUIDs : \E s \in ServiceUUIDs : \E opt \in OptionalArgs :
    /\ NextIdAt(NextIIDKey(a)) < MaxNextId
    /\ CommitIds(getIID(IdWorld, a, s, opt[1], opt[2]).c)

CallStartTrackingUsage ==
  /\ usedCache' = startTrackingUsage(IdWorld).used
  /\ cache' = startTrackingUsage(IdWorld).cache
  /\ UNCHANGED <<lifeVars, configVars, relayVars>>

CallStopTrackingUsage ==
  /\ cache' = stopTrackingUsageAndExpireUnused(IdWorld).cache
  /\ usedCache' = stopTrackingUsageAndExpireUnused(IdWorld).used
  /\ UNCHANGED <<lifeVars, configVars, relayVars>>

\* An IdentifierCache as constructed, under calls of its methods.
NextIds ==
  \/ CallGetAID
  \/ CallGetIID
  \/ CallStartTrackingUsage
  \/ CallStopTrackingUsage

\* A new IdentifierCache (beside a new RTPProxy on a host with no port
\* taken).
InitIds ==
  /\ Init
  /\ occupied = {}
  /\ ~disabled

SpecIds == InitIds /\ [][NextIds]_vars

----------------------------------------------------------------------------
(* Claims *)

PairCalls(cs) == {c \in 1..Len(cs) : cs[c].kind = "pair"}

\* C1: every pair createSocketPair resolves with is bound to ports p and
\* p + 1.  (Violated: with the cursor at the top port, left there by
\* createSocket, the second socket is asked for a number that is no port.)
C1_PairPortsAdjacent ==
  \A c \in PairCalls(calls) :
    calls[c].resolved =>
      sockets[calls[c].result[2]].bport = sockets[calls[c].result[1]].bport + 1

\* The sockets of the attempts of call c that a later attempt has replaced.
ReplacedAttempts(socks, c) ==
  {k \in 1..Len(socks) :
     /\ socks[k].call = c
     /\ \E k2 \in 1..Len(socks) :
          socks[k2].call = c /\ k2 > k /\ k2 > socks[k].peer}

\* C2: pair allocation is all-or-nothing.  Both sockets of an attempt are
\* closed before the next attempt of the same call exists; and at the step
\* that resolves a pair call, the two returned sockets both bound and are
\* open, and every other socket the call ever opened is closed.
C2_AllOrNothing ==
  [][ /\ \A c \in PairCalls(calls') :
           \A k \in ReplacedAttempts(sockets', c) : sockets'[k].st = "closed"
      /\ \A c \in PairCalls(calls) :
           (~calls[c].resolved /\ calls'[c].resolved) =>
             LET r == calls'[c].result IN
             /\ sockets'[r[1]].st = "listening" /\ sockets'[r[1]].pst = 2
             /\ sockets'[r[2]].st = "listening" /\ sockets'[r[2]].pst = 2
             /\ \A k \in 1..Len(sockets') :
                  (sockets'[k].call = c /\ k # r[1] /\ k # r[2]) =>
                    sockets'[k].st = "closed"
    ]_vars

\* A pair call has resolved after an attempt in which one socket bound and
\* the other did not; the one that bound is closed.
C2_ResolvedAfterHalfBoundAttempt ==
  \E c \in PairCalls(calls) :
    /\ calls[c].resolved
    /\ \E k \in 1..Len(sockets) :
         /\ sockets[k].call = c /\ k # calls[c].result[1] /\ k # calls[c].result[2]
         /\ sockets[k].bport # 0 /\ sockets[k].pst = 2
         /\ sockets[sockets[k].peer].pst = 1
         /\ sockets[k].st = "closed"

Owned == {incomingRTPSocket, incomingRTCPSocket, outgoingSocket} \ {0}

\* C3: destroy is idempotent and never throws: over any number of calls,
\* at any time, each owned socket is closed exactly once.  Stated for the
\* runs in which no socket emitted an error after it was bound.
\* (Violated: destroy does not forget the sockets it closed, so a second
\* call closes them again, which dgram answers with an exception.)
C3_DestroyClosesOnce ==
  lateErrors = 0 =>
    /\ ~destroyThrew
    /\ \A i \in Owned : sockets[i].closeCalls <= 1

\* C4: once destroy has been called the instance is inert: it holds no open
\* socket, attaches no message listener and forwards no packet, whenever
\* destroy was called relative to the steps of setup.  Stated for the runs
\* in which no socket emitted an error after it was bound.
\* (Violated: setup keeps no record of destroy and goes on binding.)
C4_InertAfterDestroy ==
  [][ (destroyCalls > 0 /\ lateErrors' = 0) =>
        /\ \A i \in {incomingRTPSocket', incomingRTCPSocket', outgoingSocket'} \ {0} :
             sockets'[i].st = "closed"
        /\ \A k \in 1..Len(sockets) : sockets'[k].msgH = sockets[k].msgH
        /\ sendOutCalls' = sendOutCalls
    ]_vars

SetupSingleSockets ==
  {k \in 1..Len(sockets) :
     calls[sockets[k].call].owner = "setup" /\ calls[sockets[k].call].kind = "single"}

HasBound(i) == i # 0 /\ sockets[i].bport # 0

\* C5: setup is sequenced.  A bind of the outgoing socket is requested only
\* once both sockets of the incoming pair have bound; a message listener is
\* attached, and setup is complete, only once all three sockets have bound;
\* and a listener is attached only on an instance that is not disabled.
C5_SetupSequenced ==
  /\ SetupSingleSockets # {} =>
       /\ HasBound(incomingRTPSocket) /\ HasBound(incomingRTCPSocket)
       /\ setupPc \in {"single", "done"}
  /\ setupPc = "done" =>
       HasBound(incomingRTPSocket) /\ HasBound(incomingRTCPSocket) /\ HasBound(outgoingSocket)
  /\ \A k \in 1..Len(sockets) :
       sockets[k].msgH # "none" =>
         /\ ~disabled
         /\ setupPc = "done"
         /\ k \in Owned

\* Setup has completed after a failed attempt and the listeners are attached.
C5_ListenersAttached ==
  /\ setupPc = "done"
  /\ Len(sockets) > 5
  /\ sockets[incomingRTPSocket].msgH = "rtp"
  /\ sockets[incomingRTCPSocket].msgH = "rtcp"
  /\ sockets[outgoingSocket].msgH = "reply"

PortCount == MaxPort - StartPort + 1

\* The ports setup binds on a host where the ports in occ are taken: the
\* lowest adjacent free pair, and the first free port found from the pair's
\* first port upwards, cyclically.
ExpectedPairPort(occ) ==
  LET free == {p \in StartPort..(MaxPort - 1) : p \notin occ /\ (p + 1) \notin occ}
  IN CHOOSE p \in free : \A q \in free : p <= q

ExpectedOutgoingPort(occ) ==
  LET p    == ExpectedPairPort(occ)
      free == {q \in AllocPorts : q \notin occ /\ q # p /\ q # p + 1}
      Dist(q) == (q - p + PortCount) % PortCount
  IN CHOOSE q \in free : \A r \in free : Dist(q) <= Dist(r)

\* C6: whether disabled or not, setup binds the same three ports for the
\* same occupied ports (when nothing interferes with it); and a disabled
\* instance has no listener, makes no send and learns no SSRC, whatever
\* datagrams arrive on its sockets.
C6_DisabledBindsButStaysSilent ==
  /\ (setupPc = "done" /\ lateErrors = 0 /\ destroyCalls = 0) =>
       /\ sockets[incomingRTPSocket].bport = ExpectedPairPort(occupied)
       /\ sockets[incomingRTCPSocket].bport = ExpectedPairPort(occupied) + 1
       /\ sockets[outgoingSocket].bport = ExpectedOutgoingPort(occupied)
  /\ disabled =>
       /\ \A k \in 1..Len(sockets) : sockets[k].msgH = "none"
       /\ sendOutCalls = 0
       /\ wireWrites = 0
       /\ incomingSSRC = Null

\* A disabled instance is set up, on a host where its first candidate port
\* was taken, and datagrams have arrived on its bound sockets.
C6_DisabledReceivedDatagrams ==
  /\ disabled
  /\ setupPc = "done"
  /\ occupied # {}
  /\ delivered = MaxMsgs
  /\ sockets[incomingRTPSocket].st = "listening"
  /\ lastIn[1].msg \in RtpDatagrams

\* The datagram an action has just delivered, and the listener it met.
Arrived == delivered' = delivered + 1
ArrivedMsg == lastIn'[1].msg
ArrivedAt == lastIn'[1].h

\* A compound RTCP datagram carries, from `offset` on, a Sender Report
\* (type 200) of at least 8 bytes among its complete sub-packets.
RECURSIVE CarriesSenderReport(_, _)
CarriesSenderReport(msg, offset) ==
  /\ offset + 4 <= Len(msg)
  /\ LET size == 4 + 4 * (msg[offset + 3] * 256 + msg[offset + 4])
     IN /\ offset + size <= Len(msg)
        /\ \/ msg[offset + 2] = 200 /\ size >= 8
           \/ CarriesSenderReport(msg, offset + size)

Qualifying(h, msg) ==
  \/ h = "rtp" /\ Len(msg) >= 12
  \/ h = "rtcp" /\ CarriesSenderReport(msg, 0)

\* C7: the learned incoming SSRC is write-once.  While unset it becomes set
\* exactly when a qualifying datagram is handled (RTP of at least 12 bytes,
\* or forward RTCP carrying a Sender Report of at least 8 bytes); once set,
\* no handler and no setter changes it, whatever later packets carry.
C7_IncomingSSRCWriteOnce ==
  [][ /\ incomingSSRC # Null => incomingSSRC' = incomingSSRC
      /\ (incomingSSRC = Null /\ Arrived) =>
           (incomingSSRC' # Null <=> Qualifying(ArrivedAt, ArrivedMsg))
      /\ (incomingSSRC = Null /\ ~Arrived) => incomingSSRC' = Null
    ]_vars

\* The SSRC is learned and an RTP packet carrying another value in the same
\* field has since been handled.
C7_LaterPacketDiffers ==
  /\ incomingSSRC # Null
  /\ delivered >= 2
  /\ lastIn[1].h = "rtp"
  /\ Len(lastIn[1].msg) >= 12
  /\ readUInt32BE(lastIn[1].msg, 4) # incomingSSRC

\* C8: for every RTP packet of at least 12 bytes handled by rtpMessage, the
\* packet passed to sendOut carries the outgoing SSRC, big-endian, in bytes
\* 8..11, whatever it carried before and whatever its payload type; and no
\* operation changes the outgoing SSRC.
C8_ForwardedSSRCIsOutgoing ==
  [][ /\ outgoingSSRC' = outgoingSSRC
      /\ (Arrived /\ ArrivedAt = "rtp" /\ Len(ArrivedMsg) >= 12 /\ ~handlerThrew') =>
           /\ sendOutCalls' = sendOutCalls + 1
           /\ Len(sendOutLast') = Len(ArrivedMsg)
           /\ SubSeq(sendOutLast', 9, 12) = UInt32Bytes(outgoingSSRC)
    ]_vars

\* An RTP packet whose type is not the incoming type and whose bytes 8..11
\* held another value was forwarded with the outgoing SSRC.
C8_ForeignSSRCReplaced ==
  /\ delivered > 0
  /\ sendOutCalls > 0
  /\ lastIn[1].h = "rtp"
  /\ Len(lastIn[1].msg) = 16
  /\ BitAnd(lastIn[1].msg[2], 127) # incomingPayloadType
  /\ SubSeq(lastIn[1].msg, 9, 12) = UInt32Bytes(SsrcA)
  /\ SubSeq(sendOutLast, 9, 12) = UInt32Bytes(outgoingSSRC)

\* C9: for every RTP packet of at least 12 bytes whose payload type (low 7
\* bits of byte 1) is the incoming payload type, with the outgoing payload
\* type a value 0..127, the forwarded packet has the outgoing payload type
\* in the low 7 bits of byte 1 and the input's marker in bit 7.
C9_PayloadTypeRewritten ==
  [][ ( /\ Arrived /\ ArrivedAt = "rtp" /\ Len(ArrivedMsg) >= 12
        /\ ArrivedMsg[2] % 128 = incomingPayloadType
        /\ outgoingPayloadType \in 0..127 ) =>
          /\ sendOutCalls' = sendOutCalls + 1
          /\ sendOutLast'[2] % 128 = outgoingPayloadType
          /\ sendOutLast'[2] \div 128 = ArrivedMsg[2] \div 128
    ]_vars

\* A packet of type 96 with the marker set was forwarded as type 99 with
\* the marker set.
C9_MarkedPacketRewritten ==
  /\ delivered > 0
  /\ incomingPayloadType = 96
  /\ outgoingPayloadType = 99
  /\ lastIn[1].h = "rtp"
  /\ Len(lastIn[1].msg) >= 12
  /\ lastIn[1].msg[2] = 224
  /\ sendOutCalls > 0
  /\ sendOutLast[2] = 227

\* C10: an RTP packet shorter than 12 bytes is passed to sendOut unchanged,
\* exactly once, and handling it changes neither the learned incoming SSRC
\* nor any other field of the instance.
C10_ShortRTPForwardedUnchanged ==
  [][ (Arrived /\ ArrivedAt = "rtp" /\ Len(ArrivedMsg) < 12) =>
        /\ sendOutCalls' = sendOutCalls + 1
        /\ sendOutLast' = ArrivedMsg
        /\ incomingSSRC' = incomingSSRC
        /\ UNCHANGED <<lifeVars, configVars>>
    ]_vars

\* An 11-byte datagram was handled by rtpMessage while no SSRC was learned.
C10_ElevenBytesForwarded ==
  /\ delivered > 0
  /\ lastIn[1].h = "rtp"
  /\ Len(lastIn[1].msg) = 11
  /\ sendOutCalls = 1
  /\ sendOutLast = lastIn[1].msg
  /\ incomingSSRC = Null

\* The well-formed sub-packets of a compound RTCP buffer, from `offset` on:
\* each has a 4-byte header whose last two bytes give its length in words
\* after the header; decoding ends where fewer than 4 bytes remain or the
\* declared length runs past the end.
RECURSIVE SubPackets(_, _)
SubPackets(msg, offset) ==
  IF Len(msg) - offset < 4 THEN <<>>
  ELSE LET size == 4 + 4 * (msg[offset + 3] * 256 + msg[offset + 4])
       IN IF offset + size > Len(msg) THEN <<>>
          ELSE <<SubSeq(msg, offset + 1, offset + size)>> \o SubPackets(msg, offset + size)

RECURSIVE TotalLen(_)
TotalLen(bufs) == IF bufs = <<>> THEN 0 ELSE Len(Head(bufs)) + TotalLen(Tail(bufs))

LastAt(hs) == lastIn # <<>> /\ lastIn[1].h \in hs

\* C11: processRTCPMessage decodes sub-packets from offset 0 and stops
\* where fewer than 4 bytes remain or the declared length would run past
\* the end: the transform is called exactly for the sub-packets before that
\* position, in order, the bytes after it are discarded, and no exception
\* is raised.
C11_DecodesUntilMalformed ==
  LastAt({"rtcp", "reply"}) =>
    LET in   == lastIn[1]
        subs == SubPackets(in.msg, 0)
    IN /\ Len(in.seen) = Len(subs)
       /\ \A k \in 1..Len(subs) :
            in.seen[k].packet = subs[k] /\ in.seen[k].pt = subs[k][2]
       /\ IF subs = <<>> THEN in.out = <<>>
          ELSE Len(in.out) = 1 /\ Len(in.out[1]) = TotalLen(subs)
       /\ ~handlerThrew

\* A compound whose last sub-packet overruns the buffer was decoded up to
\* that sub-packet and forwarded without it.
C11_OverrunningTailDropped ==
  /\ LastAt({"rtcp"})
  /\ lastIn[1].msg = MkSub(200, 1, SsrcB, SsrcC) \o <<128, 201, 0, 2>>
  /\ Len(lastIn[1].seen) = 1
  /\ Len(lastIn[1].out[1]) = 8

\* C12: when the transform's result is falsy or empty for every sub-packet
\* (as it is for both transforms of CallerTransforms), or no well-formed
\* sub-packet is decoded, the codec returns no output, so that nothing is
\* forwarded, not even an empty payload.
\* (Violated: only a falsy result is dropped; an empty Buffer is kept, and
\* the codec returns the empty concatenation instead of null.)
C12_NothingKeptNoOutput ==
  /\ codecLast # <<>> => codecLast[1].processed = <<>>
  /\ LastAt({"rtcp", "reply"}) =>
       /\ SubPackets(lastIn[1].msg, 0) = <<>> => lastIn[1].out = <<>>
       /\ \A k \in 1..Len(lastIn[1].out) : lastIn[1].out[k] # <<>>

RECURSIVE Flatten(_)
Flatten(bufs) == IF bufs = <<>> THEN <<>> ELSE Head(bufs) \o Flatten(Tail(bufs))

\* A sub-packet as the forward path must emit it: a Sender Report (type
\* 200) of at least 8 bytes with the outgoing SSRC in bytes 4..7, anything
\* else as it came.
ForwardedSub(sub) ==
  IF sub[2] = 200 /\ Len(sub) >= 8
  THEN SubSeq(sub, 1, 4) \o UInt32Bytes(outgoingSSRC) \o SubSeq(sub, 9, Len(sub))
  ELSE sub

\* C13: on the forward RTCP path the output is the concatenation of all
\* well-formed sub-packets of the input, in their order and number, with
\* the outgoing SSRC in bytes 4..7 of every Sender Report of at least 8
\* bytes and every other byte as in the input.
C13_ForwardPathRewritesSenderReports ==
  LastAt({"rtcp"}) =>
    LET in   == lastIn[1]
        subs == SubPackets(in.msg, 0)
    IN IF subs = <<>> THEN in.out = <<>>
       ELSE /\ in.out = <<Flatten([k \in 1..Len(subs) |-> ForwardedSub(subs[k])])>>
            /\ Len(SubPackets(in.out[1], 0)) = Len(subs)

\* A compound of a Receiver Report and a Sender Report was forwarded: the
\* Receiver Report as it came, the Sender Report with another SSRC than it
\* carried.
C13_CompoundForwarded ==
  /\ LastAt({"rtcp"})
  /\ lastIn[1].msg = MkSub(201, 3, SsrcA, SsrcC) \o MkSub(200, 2, SsrcC, SsrcA)
  /\ Len(lastIn[1].out) = 1
  /\ SubSeq(lastIn[1].out[1], 1, 16) = MkSub(201, 3, SsrcA, SsrcC)
  /\ SubSeq(lastIn[1].out[1], 21, 24) = UInt32Bytes(SsrcOut)
  /\ SubSeq(lastIn[1].msg, 21, 24) # UInt32Bytes(SsrcOut)

\* C14: on the reply RTCP path every Receiver Report (type 201) of at
\* least 12 bytes is forwarded with the learned incoming SSRC in bytes
\* 8..11, in every state in which a reply can arrive, also before an SSRC
\* is learned; every other sub-packet and every other byte is forwarded as
\* it came.
\* (Violated: before an SSRC is learned the field is null, and the handler
\* overwrites bytes 8..11 with zeros.)
C14_ReplyPathWritesLearnedSSRC ==
  LastAt({"reply"}) =>
    LET in   == lastIn[1]
        subs == SubPackets(in.msg, 0)
        outs == IF in.out = <<>> THEN <<>> ELSE SubPackets(in.out[1], 0)
    IN /\ Len(outs) = Len(subs)
       /\ in.out # <<>> => Len(in.out[1]) = TotalLen(subs)
       /\ \A k \in 1..Len(subs) :
            IF subs[k][2] = 201 /\ Len(subs[k]) >= 12
            THEN /\ incomingSSRC # Null
                 /\ SubSeq(outs[k], 9, 12) = UInt32Bytes(incomingSSRC)
                 /\ SubSeq(outs[k], 1, 8) = SubSeq(subs[k], 1, 8)
                 /\ SubSeq(outs[k], 13, Len(outs[k])) = SubSeq(subs[k], 13, Len(subs[k]))
            ELSE outs[k] = subs[k]

\* C15: sendOut writes nothing to the outgoing socket when the peer address
\* or the peer port is unset, and sendBack nothing when the server address
\* or the server RTCP port is unset; the call then returns without an
\* exception and changes no state of the instance.
C15_SendsAreNoOpsWhenUnset ==
  [][ /\ ( /\ sendOutCalls' = sendOutCalls + 1
           /\ (outgoingAddress = "" \/ outgoingPort = 0) ) =>
             /\ wireWrites' = wireWrites /\ wireLast' = wireLast
             /\ handlerThrew' = handlerThrew
             /\ UNCHANGED <<lifeVars, configVars, incomingSSRC>>
      /\ ( /\ sendBackCalls' = sendBackCalls + 1
           /\ (serverAddress = "" \/ serverRTCPPort = 0) ) =>
             /\ wireWrites' = wireWrites /\ wireLast' = wireLast
             /\ handlerThrew' = handlerThrew
             /\ UNCHANGED <<lifeVars, configVars, incomingSSRC>>
    ]_vars

\* sendOut was called with the peer port unset, and sendBack with the
\* server address set but the server RTCP port unset; nothing was written.
C15_BothCalledUnset ==
  /\ sendOutCalls = 1
  /\ sendBackCalls = 1
  /\ outgoingAddress = "peer" /\ outgoingPort = 0
  /\ serverAddress = "server" /\ serverRTCPPort = 0
  /\ wireWrites = 0
  /\ ~handlerThrew

\* C16: no input raises an error in the packet paths: in every reachable
\* state of the instance, rtpMessage, rtcpMessage and rtcpReply complete
\* without an exception for every datagram.
\* (Violated: after an 'error' event on the bound outgoing socket the
\* allocator's handler has closed it, and the send of the next forwarded
\* packet raises.)
C16_ListenersNeverRaise ==
  ~handlerThrew

\* The sockets createSocket call c has created, one per attempt.
AttemptsOf(c) == {k \in 1..Len(sockets) : sockets[k].call = c}

LastAttempt(c) == CHOOSE k \in AttemptsOf(c) : \A j \in AttemptsOf(c) : j <= k

\* The port after p in the cyclic order of 10000..65535 (scaled).
CyclicSucc(p) == StartPort + ((p - StartPort + 1) % (PortSpan + 1))

\* Port p is held by another process or by a bound socket other than k.
TakenFor(k, p) ==
  \/ p \in occupied
  \/ \E j \in 1..Len(sockets) :
       j # k /\ sockets[j].st = "listening" /\ sockets[j].bport = p

\* No other call created a socket between attempts j and k.
Uninterrupted(c, j, k) ==
  \A m \in (j + 1)..(k - 1) : sockets[m].call = c

C17_State ==
  \A c \in 1..Len(calls) :
    LET last == LastAttempt(c) IN
    /\ calls[c].resolved =>
         /\ calls[c].result = <<last>>
         /\ sockets[last].st = "listening"
         /\ sockets[last].bport = sockets[last].port
         /\ sockets[last].bport \notin occupied
    /\ ~calls[c].resolved => sockets[last].st = "binding"
    /\ \A k \in AttemptsOf(c) \ {last} :
         /\ sockets[k].st = "closed"
         /\ sockets[k].closeCalls = 1
         /\ sockets[k].bport = 0
         /\ TakenFor(k, sockets[k].port)
         /\ LET next == CHOOSE n \in AttemptsOf(c) :
                          n > k /\ \A m \in AttemptsOf(c) : m > k => n <= m IN
            Uninterrupted(c, k, next) =>
              sockets[next].port = CyclicSucc(sockets[k].port)

C17_Step ==
  /\ Len(calls') > Len(calls) =>
       /\ Len(sockets') = Len(sockets) + 1
       /\ sockets'[Len(sockets')].call = Len(calls')
       /\ sockets'[Len(sockets')].port = startingPort
       /\ startingPort' = startingPort
  /\ startingPort' # startingPort =>
       /\ startingPort' = CyclicSucc(startingPort)
       /\ Len(sockets') = Len(sockets) + 1
       /\ sockets'[Len(sockets')].port = startingPort'
       /\ sockets'[Len(sockets')].st = "binding"
       /\ \E i \in 1..Len(sockets) :
            /\ sockets[i].st = "binding"
            /\ sockets'[i].st = "closed"
            /\ sockets'[Len(sockets')].call = sockets[i].call
            /\ \A k \in 1..Len(sockets) : k # i => sockets'[k] = sockets[k]

\* C17: createSocket resolves only with a bound socket and has no failure
\* outcome (a call is resolved with its last socket, listening on the port
\* asked for, or is still binding); each bind failure closes the failed
\* socket, moves the cursor to its cyclic successor (65535 wraps to 10000)
\* and binds a new socket there in the same step; the first attempt of a
\* call binds at the cursor of that moment, every port an earlier attempt
\* asked for is taken, and no socket of a failed attempt stays open.
C17_CreateSocketFirstFreePort ==
  /\ []C17_State
  /\ [][C17_Step]_vars

\* A call has resolved on port 10000 after its attempt on the last port of
\* the range failed.
C17_ResolvedAfterWrap ==
  \E c \in 1..Len(calls) :
    /\ calls[c].resolved
    /\ sockets[LastAttempt(c)].bport = StartPort
    /\ \E k \in AttemptsOf(c) :
         /\ k < LastAttempt(c)
         /\ sockets[k].port = MaxPort
         /\ sockets[k].st = "closed"
         /\ Uninterrupted(c, k, LastAttempt(c))

\* The ports other processes hold leave a free adjacent pair (p, p+1) with
\* p in 10000..65534 and one further free port in 10000..65535 (scaled).
LeavesRoom ==
  \E p \in StartPort..PairWrapPort : \E q \in AllocPorts \ {p, p + 1} :
    {p, p + 1, q} \cap occupied = {}

SetupBound ==
  /\ setupPc = "done"
  /\ \A i \in {incomingRTPSocket, incomingRTCPSocket, outgoingSocket} :
       /\ i \in 1..Len(sockets)
       /\ sockets[i].st = "listening"
       /\ sockets[i].bport \in AllocPorts \ occupied
  /\ Cardinality({sockets[i].bport :
                    i \in {incomingRTPSocket, incomingRTCPSocket, outgoingSocket}}) = 3

SetupStages == <<"idle", "pair", "single", "done">>

StageOf(pc) == CHOOSE n \in 1..Len(SetupStages) : SetupStages[n] = pc

\* A step of setup's promise chain: it only moves forward, one stage a
\* step, and once it has completed neither its state nor the sockets it
\* stored change again.
C18_Step ==
  /\ StageOf(setupPc') \in {StageOf(setupPc), StageOf(setupPc) + 1}
  /\ setupPc = "done" =>
       /\ setupPc' = "done"
       /\ incomingRTPSocket' = incomingRTPSocket
       /\ incomingRTCPSocket' = incomingRTCPSocket
       /\ outgoingSocket' = outgoingSocket
  /\ \A c \in 1..Len(calls) :
       calls[c].resolved => calls'[c] = calls[c]

\* C18: setup completes once and never signals failure: its promise has no
\* state but pending and resolved, a resolved call and a completed setup
\* never change again, and when the ports other processes hold are fixed
\* and leave a free adjacent pair plus one further free port, a setup that
\* was called eventually completes with its three sockets bound, given
\* that every pending bind eventually ends.
C18_SetupCompletesOnce ==
  /\ [](setupPc \in {SetupStages[n] : n \in 1..Len(SetupStages)})
  /\ [][C18_Step]_vars
  /\ (setupPc # "idle" /\ LeavesRoom) ~> SetupBound

\* setup has completed after a full sweep: the pair was found at the last
\* pair of the range and the outgoing socket after the cursor wrapped.
C18_CompletedAfterSweep ==
  /\ SetupBound
  /\ LeavesRoom
  /\ Len(sockets) > MaxSockets
  /\ sockets[incomingRTPSocket].bport = PairWrapPort
  /\ sockets[outgoingSocket].bport < PairWrapPort

PeerSet == outgoingAddress # "" /\ outgoingPort # 0

\* C19: every packet a relay listener emits goes through the outgoing
\* socket to the peer given at construction, on the reply path as on the
\* forward path; no listener calls sendBack and nothing is sent to the
\* server address or RTCP port, whatever the server setters were given.
C19_RelaySendsToPeerOnly ==
  /\ sendBackCalls = 0
  /\ wireLast # <<>> =>
       /\ wireLast[1].address = outgoingAddress
       /\ wireLast[1].port = outgoingPort
       /\ wireLast[1].socket = outgoingSocket
  /\ (delivered > 0 /\ PeerSet) =>
       \/ lastIn[1].out = <<>>
       \/ wireLast = <<[msg |-> lastIn[1].out[1], port |-> outgoingPort,
                        address |-> outgoingAddress, socket |-> outgoingSocket]>>

\* The reply listener has forwarded a report while the server address and
\* RTCP port were both set.
C19_ReplyForwardedWithServerSet ==
  /\ delivered > 0
  /\ lastIn[1].h = "reply"
  /\ lastIn[1].out # <<>>
  /\ serverAddress # ""
  /\ serverRTCPPort # 0
  /\ wireLast # <<>>
  /\ wireLast[1].msg = lastIn[1].out[1]

\* The positions (from 1) of header byte 1 and of bytes 8..11.
RewrittenPositions == {2} \cup 9..12

\* C20: rtpMessage on a packet of at least 12 bytes changes nothing but
\* byte 1 and bytes 8..11: the packet passed to sendOut has the input's
\* length, every other byte is the input's, and byte 1 is the input's too
\* when the packet's payload type is not the incoming payload type.
C20_RtpMessageFrame ==
  [][ (Arrived /\ ArrivedAt = "rtp" /\ Len(ArrivedMsg) >= 12 /\ ~handlerThrew') =>
        /\ sendOutCalls' = sendOutCalls + 1
        /\ Len(sendOutLast') = Len(ArrivedMsg)
        /\ \A n \in (1..Len(ArrivedMsg)) \ RewrittenPositions :
             sendOutLast'[n] = ArrivedMsg[n]
        /\ ArrivedMsg[2] % 128 # incomingPayloadType =>
             sendOutLast'[2] = ArrivedMsg[2]
    ]_vars

\* A 16-byte packet was forwarded with byte 1 and bytes 8..11 rewritten and
\* its bytes 0, 2..7 and 12..15 as they came.
C20_OnlyHeaderFieldsRewritten ==
  /\ delivered > 0
  /\ sendOutCalls > 0
  /\ lastIn[1].h = "rtp"
  /\ Len(lastIn[1].msg) = 16
  /\ Len(sendOutLast) = 16
  /\ sendOutLast[2] # lastIn[1].msg[2]
  /\ SubSeq(sendOutLast, 9, 12) # SubSeq(lastIn[1].msg, 9, 12)
  /\ \A n \in (1..16) \ RewrittenPositions : sendOutLast[n] = lastIn[1].msg[n]

\* The first Sender Report (type 200, at least 8 bytes) among sub-packets.
FirstSenderReport(subs) ==
  subs[CHOOSE k \in 1..Len(subs) :
         /\ subs[k][2] = 200 /\ Len(subs[k]) >= 8
         /\ \A j \in 1..(k - 1) : ~(subs[j][2] = 200 /\ Len(subs[j]) >= 8)]

\* The unsigned big-endian value of bytes 4..7 of a unit.
FieldAtFour(unit) ==
  ((unit[5] * 256 + unit[6]) * 256 + unit[7]) * 256 + unit[8]

\* The unit of a qualifying datagram that the SSRC is learned from.
ObservingUnit(h, msg) ==
  IF h = "rtp" THEN msg ELSE FirstSenderReport(SubPackets(msg, 0))

\* C21: the learned incoming SSRC is the 32-bit big-endian value at bytes
\* 4..7 of the unit it is learned from, as those bytes arrived: the first
\* RTP packet of at least 12 bytes, or the first Sender Report of at least
\* 8 bytes of the first forward RTCP datagram that carries one; and a
\* Receiver Report of at least 12 bytes handled after that leaves with this
\* value in bytes 8..11.
C21_CapturedSSRCIsFieldAtFour ==
  [][ /\ (incomingSSRC = Null /\ Arrived /\ Qualifying(ArrivedAt, ArrivedMsg)) =>
           incomingSSRC' = FieldAtFour(ObservingUnit(ArrivedAt, ArrivedMsg))
      /\ (incomingSSRC # Null /\ Arrived /\ ArrivedAt = "reply") =>
           LET subs == SubPackets(ArrivedMsg, 0)
               outs == IF lastIn'[1].out = <<>> THEN <<>>
                       ELSE SubPackets(lastIn'[1].out[1], 0)
           IN /\ Len(outs) = Len(subs)
              /\ \A k \in 1..Len(subs) :
                   (subs[k][2] = 201 /\ Len(subs[k]) >= 12) =>
                     SubSeq(outs[k], 9, 12) = UInt32Bytes(incomingSSRC)
    ]_vars

\* An SSRC was learned, and a Receiver Report whose bytes 8..11 held
\* another value has since left with the learned value there.
C21_ReceiverReportCarriesCaptured ==
  /\ delivered >= 2
  /\ incomingSSRC \in {SsrcA, SsrcB}
  /\ lastIn[1].h = "reply"
  /\ lastIn[1].msg = MkSub(201, 2, SsrcB, SsrcC)
  /\ lastIn[1].out = <<MkSub(201, 2, SsrcB, incomingSSRC)>>

\* Call c is resolved in this step.
ResolvedNow(c) == c \in 1..Len(calls) /\ ~calls[c].resolved /\ calls'[c].resolved

\* No other call has created a socket since call c made its first attempt.
AloneSince(c) ==
  \A k \in 1..Len(sockets') : \A j \in 1..Len(sockets') :
    (sockets'[k].call = c /\ sockets'[j].call # c) => j < k

\* An attempt fails in this step: some socket that was open is closed.
AttemptFails == \E i \in 1..Len(sockets) :
                  sockets[i].st # "closed" /\ sockets'[i].st = "closed"

\* C22: the cursor is changed only by a failed attempt, and then by one or
\* by the wraparound to the base port; a new call leaves it alone and makes
\* its first attempt at it; a failed pair attempt at (p, p+1) is followed
\* by one at (p+1, p+2), or at the base pair after the wrap; and a call that
\* resolves, no other call having interfered, leaves the cursor on the
\* (first) port it bound.
\* (Violated: once createSocket has left the cursor on the top port, a
\* pair attempt fails there, the cursor leaves the range, and a pair that
\* then binds holds ports the cursor does not name.)
C22_CursorFrame ==
  [][ /\ startingPort' # startingPort =>
           /\ AttemptFails
           /\ \/ startingPort' = startingPort + 1
              \/ startingPort' = StartPort /\ startingPort \in {PairWrapPort, MaxPort}
      /\ Len(calls') > Len(calls) =>
           /\ startingPort' = startingPort
           /\ sockets'[Len(sockets) + 1].port = startingPort
      /\ \A i \in 1..Len(sockets) :
           (sockets[i].role = 1 /\ sockets[i].st # "closed" /\ sockets'[i].st = "closed"
              /\ startingPort = sockets[i].port /\ startingPort' # startingPort) =>
             LET p == sockets[i].port
                 q == IF p = PairWrapPort THEN StartPort ELSE p + 1 IN
             /\ Len(sockets') = Len(sockets) + 2
             /\ sockets'[Len(sockets) + 1].port = q
             /\ sockets'[Len(sockets) + 2].port = q + 1
             /\ sockets'[Len(sockets) + 1].call = sockets[i].call
      /\ \A c \in 1..Len(calls) :
           ResolvedNow(c) =>
             /\ startingPort' = startingPort
             /\ AloneSince(c) =>
                  sockets'[calls'[c].result[1]].bport = startingPort
    ]_vars

\* C23: under any sequence of createSocket and createSocketPair calls the
\* cursor stays within 10000..65535 and every pair attempt is made with the
\* cursor at most 65534, so that the second port of a pair attempt never
\* exceeds 65535.
\* (Violated: createSocket wraps at 65535 only and lets the cursor rest on
\* 65535; a pair attempt made there asks for 65536, and since recheck wraps
\* at 65534 only, its failure moves the cursor to 65536 and beyond.)
C23_CursorInRange ==
  /\ startingPort \in AllocPorts
  /\ \A k \in 1..Len(sockets) :
       /\ sockets[k].role = 1 => sockets[k].port \in StartPort..PairWrapPort
       /\ sockets[k].role = 2 => sockets[k].port \in (StartPort + 1)..MaxPort

\* Socket i, returned by an allocation that has resolved, emits 'error' in
\* this step.
ErrorAfterResolve(i) ==
  /\ lateErrors' = lateErrors + 1
  /\ sockets[i].st = "listening"
  /\ sockets[i].errH /\ ~sockets'[i].errH
  /\ calls[sockets[i].call].resolved
  /\ \E n \in 1..Len(calls[sockets[i].call].result) :
       calls[sockets[i].call].result[n] = i

\* C24: once createSocket or createSocketPair has resolved, an 'error'
\* event on a returned socket makes the allocator neither close a socket
\* nor advance the cursor nor start a new bind attempt.
\* (Violated: the once('error') handlers of the bind phase are never
\* removed, so the event runs bindErrorHandler or recheck: the cursor is
\* advanced, the returned sockets are closed and a new attempt is started
\* whose sockets nobody receives.)
C24_LateErrorIgnored ==
  [][ \A i \in 1..Len(sockets) :
        ErrorAfterResolve(i) =>
          /\ startingPort' = startingPort
          /\ Len(sockets') = Len(sockets)
          /\ \A k \in 1..Len(sockets) : sockets'[k].st = sockets[k].st
    ]_vars

\* C25: processRTCPMessage terminates for every buffer and every
\* transform: the transform is called first at offset 0, every call is made
\* with a whole header inside the buffer, each later call at an offset at
\* least 4 beyond the one before (the length of the sub-packet before,
\* whether it was kept, dropped or replaced by a buffer of another
\* length), so that there are at most floor(length / 4) calls.
C25_WalkAdvancesByFour ==
  codecLast # <<>> =>
    LET c == codecLast[1]
        n == Len(c.seen)
    IN /\ n <= Len(c.msg) \div 4
       /\ n > 0 => c.seen[1].offset = 0
       /\ \A k \in 1..n : c.seen[k].offset + 4 <= Len(c.msg)
       /\ \A k \in 1..(n - 1) :
            /\ c.seen[k + 1].offset >= c.seen[k].offset + 4
            /\ c.seen[k + 1].offset = c.seen[k].offset + Len(c.seen[k].packet)

\* A buffer of eight zero bytes was decoded with a transform that returns
\* an empty buffer: two calls, floor(8 / 4), four bytes apart.
C25_LeastSubPackets ==
  /\ codecLast # <<>>
  /\ codecLast[1].msg = <<0, 0, 0, 0, 0, 0, 0, 0>>
  /\ codecLast[1].transform = "empty"
  /\ Len(codecLast[1].seen) = 2
  /\ codecLast[1].seen[2].offset = 4

\* The keys of the cache that hold an accessory's AID.
AIDKeys(obj) == {k \in DOMAIN obj : Len(k) = 1}

\* The keys of the cache that hold an IID of accessory a.
IIDKeys(obj, a) ==
  {k \in DOMAIN obj : Len(k) >= 2 /\ k[1] = a /\ k # NextIIDKey(a)}

\* The ids under the keys ks are distinct, at least 2, and below the
\* counter stored under `counter`.
Governed(obj, ks, counter) ==
  /\ \A k \in ks : obj[k] >= FirstId
  /\ \A k1 \in ks : \A k2 \in ks : k1 # k2 => obj[k1] # obj[k2]
  /\ ks # {} => (counter \in DOMAIN obj /\ \A k \in ks : obj[k] < obj[counter])

C26_State ==
  /\ Governed(cache, AIDKeys(cache), NextAIDKey)
  /\ \A a \in AccessoryUUIDs : Governed(cache, IIDKeys(cache, a), NextIIDKey(a))

C26_Step ==
  \A k \in DOMAIN cache \cap DOMAIN cache' :
    (k # NextAIDKey /\ \A a \in AccessoryUUIDs : k # NextIIDKey(a)) =>
      cache'[k] = cache[k]

\* C26: after any sequence of getAID, getIID, startTrackingUsage and
\* stopTrackingUsageAndExpireUnused on a new IdentifierCache, the accessory
\* keys in the cache have distinct AIDs of at least 2, the keys of one
\* accessory have distinct IIDs of at least 2, the stored counter is
\* greater than every id it governs, and a key that stays in the cache
\* keeps its id.
C26_LiveIdsDistinct ==
  /\ []C26_State
  /\ [][C26_Step]_vars

\* After unused keys were expired an accessory was given an id again: it
\* differs from the one that survived, and is above it.
C26_IdGivenAfterExpiry ==
  /\ usedCache = <<>>
  /\ {<<"A">>, <<"B">>} \subseteq DOMAIN cache
  /\ cache[<<"B">>] = 3
  /\ cache[<<"A">>] = 4
  /\ IIDKeys(cache, "B") # {}


====
